---- MODULE Spec2Model ----
(***************************************************************************)
(* Model of the UP (Unified Properties) parser, src/src/uplang/__init__.py *)
(*                                                                         *)
(* A Python str is a sequence of one-character strings.  Line indices are  *)
(* 0-based as in the code, so lines[i] of the code is lines[i + 1] here.   *)
(* The recursion of _parse_line / _parse_value / _parse_block /            *)
(* _parse_list / _parse_multiline is an explicit call stack: one frame per *)
(* running loop, the frame of parse_document at the bottom.  One action is *)
(* one iteration of the loop of the topmost frame (including the return to *)
(* the caller when the loop ends).                                         *)
(***************************************************************************)
EXTENDS Integers, Sequences, FiniteSets, TLC

VARIABLES
    input_text,   \* the argument of parse_document
    lines,        \* input_text.split("\n")
    stack,        \* call stack; stack[1] is parse_document's frame
    pc,           \* "run" | "raising" | "done" | "error"
    document,     \* Document.nodes once returned
    error,        \* the ParseError once raised: [line, cause]
    fault,        \* the exception in flight: [cause, at]
    catches,      \* number of times an except clause handled the fault
    last,         \* the most recent _parse_line call and what it computed
    rets,         \* every sub-parser return so far, in order
    tops,         \* what each iteration of parse_document's loop did
    consumed      \* consumed[i + 1]: how many times line i was consumed

vars == <<input_text, lines, stack, pc, document, error, fault, catches,
          last, rets, tops, consumed>>

\* Bound on the number of lines of the input.
MaxLines == 4

(***************************************************************************)
(* Characters.  SUP2 stands for the single character U+00B2 (superscript   *)
(* two): str.isdigit() is true of it, int() does not accept it.  BQ stands  *)
(* for the single character U+0060 (the backtick).                         *)
(***************************************************************************)
NL == "\n"
SUP2 == "sup2"
BQ == "bq"
Whitespace == {" ", "\t"}
DecimalChars == {"0", "1", "2"}
DigitChars == DecimalChars \cup {SUP2}
FENCE == <<BQ, BQ, BQ>>

IsSpace(c) == c \in Whitespace

\* ---------------------------------------------------------------- str methods

RECURSIVE LStrip(_)
LStrip(s) == IF s # <<>> /\ IsSpace(Head(s)) THEN LStrip(Tail(s)) ELSE s

RECURSIVE RStrip(_)
RStrip(s) ==
    IF s # <<>> /\ IsSpace(s[Len(s)]) THEN RStrip(SubSeq(s, 1, Len(s) - 1)) ELSE s

\* str.strip()
Strip(s) == RStrip(LStrip(s))

\* str.startswith(p), str.endswith(p)
StartsWith(s, p) == Len(s) >= Len(p) /\ SubSeq(s, 1, Len(p)) = p
EndsWith(s, p) == Len(s) >= Len(p) /\ SubSeq(s, Len(s) - Len(p) + 1, Len(s)) = p

\* index of the first occurrence of character c in s, 0 when absent
RECURSIVE FindFrom(_, _, _)
FindFrom(s, c, i) ==
    IF i > Len(s) THEN 0 ELSE IF s[i] = c THEN i ELSE FindFrom(s, c, i + 1)

Find(s, c) == FindFrom(s, c, 1)

\* s.split(c): always at least one piece
RECURSIVE SplitOn(_, _)
SplitOn(s, c) ==
    LET p == Find(s, c)
    IN  IF p = 0 THEN <<s>>
        ELSE <<SubSeq(s, 1, p - 1)>> \o SplitOn(SubSeq(s, p + 1, Len(s)), c)

\* c.join(parts)
RECURSIVE Join(_, _)
Join(parts, c) ==
    IF parts = <<>> THEN <<>>
    ELSE IF Len(parts) = 1 THEN parts[1]
    ELSE parts[1] \o <<c>> \o Join(Tail(parts), c)

\* s[n:]
DropFirst(s, n) == SubSeq(s, n + 1, Len(s))

\* str.isdigit(): non-empty and every character has the Unicode digit property
IsDigit(s) == s # <<>> /\ \A k \in 1..Len(s) : s[k] \in DigitChars

\* int(s): [ok, n]; ValueError when a character is not a decimal digit
DigitVal(c) == CASE c = "0" -> 0 [] c = "1" -> 1 [] c = "2" -> 2 [] OTHER -> 0

RECURSIVE IntFold(_, _)
IntFold(s, n) == IF s = <<>> THEN n ELSE IntFold(Tail(s), 10 * n + DigitVal(Head(s)))

IntOf(s) ==
    IF s # <<>> /\ \A k \in 1..Len(s) : s[k] \in DecimalChars
    THEN [ok |-> TRUE, n |-> IntFold(s, 0)]
    ELSE [ok |-> FALSE, n |-> 0]

\* ---------------------------------------------------------------- values

Str(s) == [tag |-> "str", v |-> s]
ListOf(items) == [tag |-> "list", v |-> items]
DictOf(items) == [tag |-> "dict", v |-> items]
None == [some |-> FALSE, s |-> <<>>]
Some(s) == [some |-> TRUE, s |-> s]
Node(key, value, ann) == [key |-> key, value |-> value, type_annotation |-> ann]

\* position of key k in an insertion-ordered dict, 0 when absent
RECURSIVE KeyPosFrom(_, _, _)
KeyPosFrom(d, k, i) ==
    IF i > Len(d) THEN 0 ELSE IF d[i].k = k THEN i ELSE KeyPosFrom(d, k, i + 1)

KeyPos(d, k) == KeyPosFrom(d, k, 1)

\* variant: re-assigning a key moves it to the end (move-to-end ordered map)
DictSetMoveToEnd(d, k, v) ==
    LET IsOther(e) == e.k # k
    IN  Append(SelectSeq(d, IsOther), [k |-> k, v |-> v])

\* d[k] = v on a Python dict: overwrite in place, or insert at the end
DictSet(d, k, v) ==
    LET p == KeyPos(d, k)
    IN  IF p = 0 THEN Append(d, [k |-> k, v |-> v])
        ELSE [d EXCEPT ![p] = [k |-> k, v |-> v]]

\* ---------------------------------------------------------------- leaf parsers

\* end of the run of non-whitespace characters that starts at i
RECURSIVE TokenEnd(_, _)
TokenEnd(s, i) ==
    IF i <= Len(s) /\ ~IsSpace(s[i]) THEN TokenEnd(s, i + 1) ELSE i

\* end of the run of whitespace characters that starts at i
RECURSIVE SpaceEnd(_, _)
SpaceEnd(s, i) ==
    IF i <= Len(s) /\ IsSpace(s[i]) THEN SpaceEnd(s, i + 1) ELSE i

\* variant: line.split(" ", 1), which does not skip leading whitespace
SplitAtFirstSpace(line) ==
    LET p == Find(line, " ")
    IN  IF p = 0 THEN <<line>>
        ELSE <<SubSeq(line, 1, p - 1), SubSeq(line, p + 1, Len(line))>>

\* line.split(None, 1): leading whitespace is skipped, then one token, then
\* the whitespace after it is skipped and the rest is kept to the end
SplitNone1(line) ==
    LET a == SpaceEnd(line, 1)
        b == TokenEnd(line, a)
        c == SpaceEnd(line, b)
    IN  IF a > Len(line) THEN <<>>
        ELSE IF c > Len(line) THEN <<SubSeq(line, a, b - 1)>>
        ELSE <<SubSeq(line, a, b - 1), SubSeq(line, c, Len(line))>>

\* _split_key_value
SplitKeyValue(line) ==
    LET parts == SplitNone1(line)
    IN  IF Len(parts) < 2
        THEN <<IF parts # <<>> THEN parts[1] ELSE <<>>, <<>> >>
        ELSE <<parts[1], parts[2]>>

\* _parse_key_and_type
ParseKeyAndType(key_part) ==
    LET p == Find(key_part, "!")
    IN  IF p # 0
        THEN [key |-> SubSeq(key_part, 1, p - 1),
              ann |-> Some(SubSeq(key_part, p + 1, Len(key_part)))]
        ELSE [key |-> key_part, ann |-> None]

\* _parse_inline_list
ParseInlineList(s) ==
    LET t == Strip(s)
        content == SubSeq(t, 2, Len(t) - 1)
        items == SplitOn(content, ",")
    IN  IF Strip(content) = <<>> THEN ListOf(<<>>)
        ELSE ListOf([k \in 1..Len(items) |-> Str(Strip(items[k]))])

\* _dedent
DedentLine(line, amount) ==
    IF Len(line) >= amount THEN DropFirst(line, amount) ELSE line

Dedent(text, amount) ==
    LET ls == SplitOn(text, NL)
    IN  Join([k \in 1..Len(ls) |-> DedentLine(ls[k], amount)], NL)

\* variant: the inline-list test is startswith("[") alone and comes before
\* the test for a lone "["
ValueFormBracketPrefix(val_part) ==
    IF StartsWith(val_part, FENCE) THEN "multiline"
    ELSE IF val_part = <<"{">> THEN "block"
    ELSE IF StartsWith(val_part, <<"[">>) THEN "inline"
    ELSE IF val_part = <<"[">> THEN "list"
    ELSE "scalar"

\* the order of the tests of _parse_value
ValueForm(val_part) ==
    IF StartsWith(val_part, FENCE) THEN "multiline"
    ELSE IF val_part = <<"{">> THEN "block"
    ELSE IF val_part = <<"[">> THEN "list"
    ELSE IF StartsWith(val_part, <<"[">>) /\ EndsWith(val_part, <<"]">>) THEN "inline"
    ELSE "scalar"

\* the value _parse_value returns without reading further lines
ImmediateValue(form, val_part) ==
    IF form = "inline" THEN ParseInlineList(val_part) ELSE Str(val_part)

\* the end of _parse_multiline once its loop is over: join, then dedent
MultilineText(content, ann) ==
    LET text == Join(content, NL)
    IN  IF ann.some /\ ann.s # <<>> /\ IsDigit(ann.s)
        THEN LET n == IntOf(ann.s)
             IN  IF n.ok THEN [ok |-> TRUE, text |-> Dedent(text, n.n)]
                 ELSE [ok |-> FALSE, text |-> text]
        ELSE [ok |-> TRUE, text |-> text]

\* ---------------------------------------------------------------- call stack

Frame(kind, i, start, key, ann) ==
    [kind |-> kind, i |-> i, start |-> start, key |-> key, ann |-> ann,
     acc |-> <<>>, seen |-> <<>>]

Top == stack[Len(stack)]
Callers == SubSeq(stack, 1, Len(stack) - 1)

\* one more consumption of line i
Mark(c, i) == [c EXCEPT ![i + 1] = @ + 1]

\* variant: "break" without "i += 1"
AfterCloserStay(i) == i

\* the cursor after a closing line at index i ("i += 1; break")
AfterCloser(i) == i + 1

\* blank line or comment
IsBlankOrComment(trimmed) == trimmed = <<>> \/ StartsWith(trimmed, <<"#">>)

\* variant: stray closers are not stepped over
IsTopSkipNoClosers(trimmed) == IsBlankOrComment(trimmed)

\* the lines parse_document steps over
IsTopSkip(trimmed) ==
    IsBlankOrComment(trimmed) \/ trimmed \in {<<"}">>, <<"]">>}

\* variant: lst.append(line)
ListScalarRaw(line, trimmed) == Str(line)

\* the element _parse_list appends for a line that is no list and no block
ListScalar(line, trimmed) == Str(trimmed)

\* variant: blank lines are skipped as in the other loops
KeepLineSkipBlank(content, line) ==
    IF Strip(line) = <<>> THEN content ELSE Append(content, line)

\* content.append(line) of _parse_multiline
KeepLine(content, line) == Append(content, line)

\* variant: the message names the line where the fault arose
ParseErrorAtFault(i, e) == [line |-> e.at + 1, cause |-> e.cause]

\* ParseError(f"line {i + 1}: {e}")
ParseErrorOf(i, e) == [line |-> i + 1, cause |-> e.cause]

\* the head of _parse_line: split the line, split the key, pick the form
ParseLineHead(line) ==
    LET kv == SplitKeyValue(line)
        kt == ParseKeyAndType(kv[1])
    IN  [key_part |-> kv[1], val_part |-> kv[2], key |-> kt.key, ann |-> kt.ann,
         form |-> ValueForm(kv[2])]

\* the caller's frame once the callee has returned (value, next)
Receive(f, child, value, next) ==
    CASE f.kind = "doc" ->
            [f EXCEPT !.acc = Append(@, Node(child.key, value, child.ann)),
                      !.i = next]
      [] f.kind = "block" ->
            [f EXCEPT !.acc = DictSet(@, child.key, value), !.i = next,
                      !.seen = Append(@, [at |-> child.start, k |-> child.key,
                                          v |-> value])]
      [] OTHER ->
            [f EXCEPT !.acc = Append(@, value), !.i = next,
                      !.seen = Append(@, [at |-> child.start, k |-> <<>>,
                                          v |-> value])]

Deliver(stk, child, value, next) ==
    [stk EXCEPT ![Len(stk)] = Receive(@, child, value, next)]

Ret(kind, start, next, eof, ok, value, content) ==
    [kind |-> kind, start |-> start, next |-> next, eof |-> eof, ok |-> ok,
     value |-> value, content |-> content]

\* what one iteration of parse_document's loop did
TopRec(i, node, next) == [i |-> i, node |-> node, next |-> next]

TopsAfter(stk, start, next) ==
    IF Len(stk) = 1 THEN Append(tops, TopRec(start, TRUE, next)) ELSE tops

\* an iteration that only moves the cursor of the topmost frame
Advance(f) ==
    [stack |-> [stack EXCEPT ![Len(stack)] = f], rets |-> rets,
     tops |-> tops, consumed |-> Mark(consumed, Top.i), last |-> last]

\* _parse_line(lines, i) called by the topmost frame (parse_document or
\* _parse_block): scalars and inline lists return at once, the other forms
\* run a sub-parser from the next line
CallParseLine(i) ==
    LET h == ParseLineHead(lines[i + 1])
        child == Frame(h.form, i + 1, i, h.key, h.ann)
        value == ImmediateValue(h.form, h.val_part)
        rec == [start |-> i, line |-> lines[i + 1], key_part |-> h.key_part,
                val_part |-> h.val_part, key |-> h.key, ann |-> h.ann,
                form |-> h.form]
    IN  IF h.form \in {"scalar", "inline"}
        THEN [stack |-> Deliver(stack, child, value, i + 1),
              rets |-> Append(rets, Ret("line", i, i + 1, FALSE, TRUE, value, <<>>)),
              tops |-> TopsAfter(stack, i, i + 1),
              consumed |-> Mark(consumed, i), last |-> rec]
        ELSE [stack |-> Append(stack, child), rets |-> rets, tops |-> tops,
              consumed |-> Mark(consumed, i), last |-> rec]

\* the topmost frame returns (value, next) to its caller
Return(value, next, eof, cons) ==
    LET f == Top
        own == Ret(f.kind, f.start, next, eof, TRUE, value,
                   IF f.kind = "multiline" THEN f.acc ELSE f.seen)
        viaLine == Callers[Len(Callers)].kind # "list"
    IN  [stack |-> Deliver(Callers, f, value, next),
         rets |-> IF viaLine
                  THEN rets \o <<own, Ret("line", f.start, next, FALSE, TRUE, value, <<>>)>>
                  ELSE Append(rets, own),
         tops |-> TopsAfter(Callers, f.start, next),
         consumed |-> cons, last |-> last]

Apply(d) ==
    /\ stack' = d.stack
    /\ rets' = d.rets
    /\ tops' = d.tops
    /\ consumed' = d.consumed
    /\ last' = d.last

\* ---------------------------------------------------------------- actions

NoCall == [start |-> -1, line |-> <<>>, key_part |-> <<>>, val_part |-> <<>>,
           key |-> <<>>, ann |-> None, form |-> "none"]

NoFault == [cause |-> "none", at |-> -1]
NoError == [line |-> 0, cause |-> "none"]

InitOn(text) ==
    /\ input_text = text
    /\ lines = SplitOn(text, NL)
    /\ stack = <<Frame("doc", 0, 0, <<>>, None)>>
    /\ pc = "run"
    /\ document = <<>>
    /\ error = NoError
    /\ fault = NoFault
    /\ catches = 0
    /\ last = NoCall
    /\ rets = <<>>
    /\ tops = <<>>
    /\ consumed = [k \in 1..Len(SplitOn(text, NL)) |-> 0]

\* one iteration of the loop of parse_document, or its return
ParseDocumentStep ==
    /\ pc = "run"
    /\ Top.kind = "doc"
    /\ LET i == Top.i
       IN  IF ~(i < Len(lines))
           THEN /\ pc' = "done"
                /\ document' = Top.acc
                /\ UNCHANGED <<stack, rets, tops, consumed, last>>
           ELSE /\ Apply(IF IsTopSkip(Strip(lines[i + 1]))
                         THEN [Advance([Top EXCEPT !.i = i + 1])
                                 EXCEPT !.tops = Append(tops, TopRec(i, FALSE, i + 1))]
                         ELSE CallParseLine(i))
                /\ UNCHANGED <<pc, document>>
    /\ UNCHANGED <<input_text, lines, error, fault, catches>>

\* one iteration of the loop of _parse_block, or its return
ParseBlockStep ==
    /\ pc = "run"
    /\ Top.kind = "block"
    /\ LET i == Top.i
           trimmed == Strip(lines[i + 1])
       IN  Apply(IF ~(i < Len(lines))
                 THEN Return(DictOf(Top.acc), i, TRUE, consumed)
                 ELSE IF trimmed = <<"}">>
                 THEN Return(DictOf(Top.acc), AfterCloser(i), FALSE, Mark(consumed, i))
                 ELSE IF IsBlankOrComment(trimmed)
                 THEN Advance([Top EXCEPT !.i = i + 1])
                 ELSE CallParseLine(i))
    /\ UNCHANGED <<input_text, lines, pc, document, error, fault, catches>>

\* one iteration of the loop of _parse_list, or its return
ParseListStep ==
    /\ pc = "run"
    /\ Top.kind = "list"
    /\ LET i == Top.i
           line == lines[i + 1]
           trimmed == Strip(line)
           saw(v) == Append(Top.seen, [at |-> i, k |-> <<>>, v |-> v])
       IN  Apply(IF ~(i < Len(lines))
                 THEN Return(ListOf(Top.acc), i, TRUE, consumed)
                 ELSE IF trimmed = <<"]">>
                 THEN Return(ListOf(Top.acc), AfterCloser(i), FALSE, Mark(consumed, i))
                 ELSE IF IsBlankOrComment(trimmed)
                 THEN Advance([Top EXCEPT !.i = i + 1])
                 ELSE IF StartsWith(trimmed, <<"[">>) /\ EndsWith(trimmed, <<"]">>)
                 THEN Advance([Top EXCEPT !.acc = Append(@, ParseInlineList(trimmed)),
                                          !.seen = saw(ParseInlineList(trimmed)),
                                          !.i = i + 1])
                 ELSE IF trimmed = <<"{">>
                 THEN [Advance(Top) EXCEPT
                         !.stack = Append(stack, Frame("block", i + 1, i, <<>>, None))]
                 ELSE Advance([Top EXCEPT !.acc = Append(@, ListScalar(line, trimmed)),
                                          !.seen = saw(ListScalar(line, trimmed)),
                                          !.i = i + 1]))
    /\ UNCHANGED <<input_text, lines, pc, document, error, fault, catches>>

\* one iteration of the loop of _parse_multiline, or the code after the loop:
\* join, dedent (int() may raise ValueError) and return
ParseMultilineStep ==
    /\ pc = "run"
    /\ Top.kind = "multiline"
    /\ LET i == Top.i
           more == i < Len(lines)
           closing == more /\ Strip(lines[i + 1]) = FENCE
           next == IF closing THEN AfterCloser(i) ELSE i
           cons == IF closing THEN Mark(consumed, i) ELSE consumed
           r == MultilineText(Top.acc, Top.ann)
       IN  IF more /\ ~closing
           THEN /\ Apply(Advance([Top EXCEPT !.acc = KeepLine(@, lines[i + 1]),
                                             !.i = i + 1]))
                /\ UNCHANGED <<pc, fault>>
           ELSE IF r.ok
           THEN /\ Apply(Return(Str(r.text), next, ~closing, cons))
                /\ UNCHANGED <<pc, fault>>
           ELSE /\ pc' = "raising"
                /\ fault' = [cause |-> "invalid literal for int()", at |-> Top.start]
                /\ stack' = Callers
                /\ rets' = Append(rets, Ret("multiline", Top.start, next, ~closing,
                                             FALSE, Str(r.text), Top.acc))
                /\ consumed' = cons
                /\ UNCHANGED <<tops, last>>
    /\ UNCHANGED <<input_text, lines, document, error, catches>>

\* the exception leaves a frame of _parse_block, _parse_list, _parse_line
\* or _parse_value: none of them has an except clause
Propagate ==
    /\ pc = "raising"
    /\ Len(stack) > 1
    /\ stack' = Callers
    /\ UNCHANGED <<input_text, lines, pc, document, error, fault, catches,
                   last, rets, tops, consumed>>

\* the except clause of parse_document
Catch ==
    /\ pc = "raising"
    /\ Len(stack) = 1
    /\ pc' = "error"
    /\ error' = ParseErrorOf(stack[1].i, fault)
    /\ catches' = catches + 1
    /\ UNCHANGED <<input_text, lines, stack, document, fault, last, rets,
                   tops, consumed>>

Next ==
    \/ ParseDocumentStep
    \/ ParseBlockStep
    \/ ParseListStep
    \/ ParseMultilineStep
    \/ Propagate
    \/ Catch

\* ---------------------------------------------------------------- inputs

\* all sequences over S of length 1..n
SeqsUpTo(S, n) == UNION {[1..k -> S] : k \in 1..n}

\* lines of documents: blank, comment, closers, every opener (the fence with
\* an annotation int() rejects), and lines with stray spaces
DocLines ==
    { <<>>,
      <<"#", "a">>,
      <<" ", "}">>,
      <<"]">>,
      <<"a", " ", "{">>,
      <<"b", " ", "[">>,
      <<"a", "!", SUP2, " ", BQ, BQ, BQ>>,
      <<"{">>,
      <<"[", "b", ",", " ", "[", "a", "]">>,
      <<" ", "a", " ", " ", "b", " ">> }

\* lines of documents in which every construct can open, close and nest
CursorLines ==
    { <<>>,
      <<" ", "}">>,
      <<"]">>,
      <<"a", " ", "{">>,
      <<"b", " ", "[">>,
      <<"c", "!", "1", " ", BQ, BQ, BQ>>,
      <<"a", "!", SUP2, " ", BQ, BQ, BQ>>,
      <<" ", BQ, BQ, BQ>>,
      <<"{">>,
      <<" ", "a", " ", " ", "b", " ">> }

\* lines of documents about fences: one opener per kind of annotation (none,
\* empty, not a number, a number, a digit int() rejects), the closer, content
\* of every length, and the openers of the enclosing constructs
FenceLines ==
    { <<"a", " ", BQ, BQ, BQ>>,
      <<"a", "!", " ", BQ, BQ, BQ>>,
      <<"a", "!", "1", "x", " ", BQ, BQ, BQ>>,
      <<"a", "!", "0", "2", " ", BQ, BQ, BQ>>,
      <<"a", "!", SUP2, " ", BQ, BQ, BQ>>,
      <<" ", BQ, BQ, BQ>>,
      <<>>,
      <<"#", "a">>,
      <<"}">>,
      <<"]">>,
      <<"a", " ", "{">>,
      <<"b", " ", "[">> }

Init == \E ls \in SeqsUpTo(DocLines, MaxLines) : InitOn(Join(ls, NL))

InitMultiline == \E ls \in SeqsUpTo(FenceLines, MaxLines) : InitOn(Join(ls, NL))

InitCursor == \E ls \in SeqsUpTo(CursorLines, MaxLines) : InitOn(Join(ls, NL))

Spec == Init /\ [][Next]_vars

SpecMultiline == InitMultiline /\ [][Next]_vars

SpecCursor == InitCursor /\ [][Next]_vars

\* ---------------------------------------------------------------- vocabulary of the claims

RetIdx == 1..Len(rets)
LineIdx == 0..(Len(lines) - 1)
LineAt(j) == lines[j + 1]
Stripped(j) == Strip(LineAt(j))

IsBlankText(t) == t = <<>>
IsCommentText(t) == t # <<>> /\ t[1] = "#"
IsFenceText(t) == Len(t) = 3 /\ \A k \in 1..3 : t[k] = BQ
Terminated == pc \in {"done", "error"}

\* the ascending sequence of the indices lo..hi that satisfy Test
Indices(lo, hi, Test(_)) ==
    SelectSeq([k \in 1..(IF hi >= lo THEN hi - lo + 1 ELSE 0) |-> lo + k - 1], Test)

\* first index from `from` on whose line satisfies Test, Len(lines) when there is none
FirstLine(from, Test(_)) ==
    LET S == {j \in from..(Len(lines) - 1) : Test(j)}
    IN  IF S = {} THEN Len(lines) ELSE CHOOSE j \in S : \A m \in S : j <= m

\* ---------------------------------------------------------------- C1

\* C1: an opener (block, list or multiline fence) without a closer line before
\* the end of the input never makes parse raise: the sub-parser returns at end
\* of input with the content accumulated so far and the cursor equal to the
\* number of lines.
C1_UnterminatedClosesImplicitly ==
    \A k \in RetIdx :
        LET r == rets[k]
        IN  (r.kind \in {"block", "list", "multiline"} /\ r.eof) =>
                /\ r.ok
                /\ pc # "error"
                /\ r.next = Len(lines)
                /\ r.value.tag = CASE r.kind = "block" -> "dict"
                                   [] r.kind = "list" -> "list"
                                   [] OTHER -> "str"

\* ---------------------------------------------------------------- C2

\* index of the top-level line at which the node being parsed began: where the
\* last finished iteration of the top-level loop left the cursor
C2_NodeStart == IF tops = <<>> THEN 0 ELSE tops[Len(tops)].next

\* C2: a fault raised at any depth is handled exactly once, by the top-level
\* loop, and becomes ParseError "line N: <cause>" with N the 1-based index of
\* the top-level line where the node began (not the nested line of the
\* fault); no Document is returned.  Without a fault nothing is handled.
C2_FaultReportedAtTopLevelLine ==
    /\ pc = "error" =>
          /\ catches = 1
          /\ error.cause = fault.cause
          /\ error.line = C2_NodeStart + 1
          /\ ~IsBlankText(Stripped(C2_NodeStart))
          /\ fault.at >= C2_NodeStart
          /\ document = <<>>
    /\ pc # "error" => catches = 0 /\ error = NoError
    /\ pc = "done" => fault = NoFault

\* a fault that arose on a nested line, reported at the top-level line
C2_Witness ==
    /\ pc = "error"
    /\ fault.at + 1 > error.line
    /\ error.line = 2

\* ---------------------------------------------------------------- C3

\* the form the priority order of the claim gives to a remainder
C3_Expected(v) ==
    CASE Len(v) >= 3 /\ v[1] = BQ /\ v[2] = BQ /\ v[3] = BQ -> "multiline"
      [] v = <<"{">> -> "block"
      [] v = <<"[">> -> "list"
      [] Len(v) >= 2 /\ v[1] = "[" /\ v[Len(v)] = "]" -> "inline"
      [] OTHER -> "scalar"

\* C3: the value dispatcher picks the form by the first matching rule
\* (fence, "{", "[", "[...]", scalar); a lone "[" is a multi-line list, never
\* an inline list; a scalar is the remainder unchanged; the inline-list and
\* scalar forms return the key line's index plus one, the other forms start
\* their sub-parser on the next line.
C3_DispatchByFirstMatchingRule ==
    last.start >= 0 =>
        /\ last.form = C3_Expected(last.val_part)
        /\ last.val_part = <<"[">> => last.form = "list"
        /\ \A k \in RetIdx :
              LET r == rets[k]
              IN  (r.kind = "line" /\ r.start = last.start
                   /\ last.form \in {"inline", "scalar"}) =>
                      /\ r.next = last.start + 1
                      /\ last.form = "scalar" =>
                            r.value.tag = "str" /\ r.value.v = last.val_part
                      /\ last.form = "inline" => r.value.tag = "list"
        /\ (last.form \in {"inline", "scalar"}) =>
              \E k \in RetIdx : rets[k].kind = "line" /\ rets[k].start = last.start
        /\ (pc = "run" /\ last.form \in {"multiline", "block", "list"}
            /\ \A k \in RetIdx : ~(rets[k].kind = "line" /\ rets[k].start = last.start)) =>
              \E d \in 2..Len(stack) :
                  /\ stack[d].kind = last.form
                  /\ stack[d].start = last.start
                  /\ stack[d].key = last.key
                  /\ stack[d].i > last.start

\* a lone "[" dispatched to the list parser, which starts on the next line
C3_Witness ==
    /\ pc = "run"
    /\ last.val_part = <<"[">>
    /\ last.form = "list"
    /\ Top.kind = "list" /\ Top.start = last.start /\ Top.i = last.start + 1

\* ---------------------------------------------------------------- C4

C4_FirstSpace(line) ==
    LET S == {j \in 1..Len(line) : IsSpace(line[j])}
    IN  IF S = {} THEN 0 ELSE CHOOSE j \in S : \A m \in S : j <= m

C4_RunEnd(line, p) ==
    LET S == {j \in p..Len(line) : \A m \in p..j : IsSpace(line[m])}
    IN  CHOOSE j \in S : \A m \in S : m <= j

\* C4 as stated: the raw line is split on its first run of whitespace, the key
\* token is the text before that run and the remainder everything after it; a
\* line without whitespace is all key.
C4_SplitOnFirstWhitespaceRun ==
    last.start >= 0 =>
        LET line == last.line
            p == C4_FirstSpace(line)
        IN  IF p = 0
            THEN last.key_part = line /\ last.val_part = <<>>
            ELSE /\ last.key_part = SubSeq(line, 1, p - 1)
                 /\ last.val_part = SubSeq(line, C4_RunEnd(line, p) + 1, Len(line))

\* C4 as amended: leading whitespace is dropped first; the key token is the
\* non-empty run of non-whitespace characters that follows, the remainder is
\* everything after the whitespace run that follows the key, verbatim (its
\* trailing whitespace included), and is empty when nothing follows.
C4_SplitAfterLeadingWhitespace ==
    last.start >= 0 =>
        LET line == last.line
            key == last.key_part
            rem == last.val_part
        IN  /\ key # <<>>
            /\ \A j \in 1..Len(key) : ~IsSpace(key[j])
            /\ rem # <<>> => ~IsSpace(rem[1])
            /\ \E a \in 0..Len(line), g \in 0..Len(line) :
                  /\ Len(line) = a + Len(key) + g + Len(rem)
                  /\ \A j \in 1..a : IsSpace(line[j])
                  /\ SubSeq(line, a + 1, a + Len(key)) = key
                  /\ \A j \in (a + Len(key) + 1)..(a + Len(key) + g) : IsSpace(line[j])
                  /\ SubSeq(line, a + Len(key) + g + 1, Len(line)) = rem
                  /\ rem # <<>> => g >= 1

\* an indented line with a two-space gap and a trailing space
C4_Witness ==
    /\ last.line = <<" ", "a", " ", " ", "b", " ">>
    /\ last.key_part = <<"a">>
    /\ last.val_part = <<"b", " ">>

\* ---------------------------------------------------------------- C5

C5_FirstAt(as, k) == CHOOSE j \in 1..Len(as) : as[j].k = k /\ \A m \in 1..(j - 1) : as[m].k # k
C5_LastAt(as, k) == CHOOSE j \in 1..Len(as) : as[j].k = k /\ \A m \in (j + 1)..Len(as) : as[m].k # k

\* the block `items` is what the assignments `as` (in line order) must give
C5_Deduplicated(items, as) ==
    /\ \A p, q \in 1..Len(items) : items[p].k = items[q].k => p = q
    /\ \A j \in 1..Len(as) : \E p \in 1..Len(items) : items[p].k = as[j].k
    /\ \A p \in 1..Len(items) :
          /\ \E j \in 1..Len(as) : as[j].k = items[p].k
          /\ items[p].v = as[C5_LastAt(as, items[p].k)].v
    /\ \A p, q \in 1..Len(items) :
          p < q => C5_FirstAt(as, items[p].k) < C5_FirstAt(as, items[q].k)

\* C5: in every block each key occurs once; a key assigned several times
\* holds the value of its last assignment at the position of its first
\* insertion, and the keys iterate in the order of their first occurrence.
\* The assignments are the keys of the block's own lines, in line order.
C5_BlockKeysUniqueLastWinsFirstPosition ==
    /\ \A k \in RetIdx :
          rets[k].kind = "block" =>
              /\ rets[k].value.tag = "dict"
              /\ C5_Deduplicated(rets[k].value.v, rets[k].content)
              /\ \A j \in 1..Len(rets[k].content) :
                    LET a == rets[k].content[j]
                    IN  /\ a.k = ParseLineHead(LineAt(a.at)).key
                        /\ j > 1 => rets[k].content[j - 1].at < a.at
    /\ \A d \in 1..Len(stack) :
          stack[d].kind = "block" => C5_Deduplicated(stack[d].acc, stack[d].seen)

\* key a assigned, then another key, then a again with another value
C5_Witness ==
    \E k \in RetIdx :
        /\ rets[k].kind = "block"
        /\ Len(rets[k].content) = 3
        /\ Len(rets[k].value.v) = 2
        /\ rets[k].content[1].k = rets[k].content[3].k
        /\ rets[k].content[1].k # rets[k].content[2].k
        /\ rets[k].content[1].v # rets[k].content[3].v
        /\ rets[k].value.v[1].k = rets[k].content[1].k
        /\ rets[k].value.v[1].v = rets[k].content[3].v

\* ---------------------------------------------------------------- C6

\* the lines the top level steps over, as the claim lists them
C6_SkipText(t) ==
    IsBlankText(t) \/ IsCommentText(t) \/ t = <<"}">> \/ t = <<"]">>

C6_IsNode(rec) == rec.node

\* the nodes appended so far (parse_document's list, the Document once returned)
C6_Nodes == IF pc = "done" THEN document ELSE stack[1].acc

\* C6: at top level a blank line, a comment and a stray "}" or "]" give no
\* node and move the cursor by one; an input of blank lines and comments only
\* (the empty string included) gives a Document without nodes; the nodes are
\* in input order, one per top-level line that started a node.
C6_TopLevelSkipsAndNodeOrder ==
    LET starts == SelectSeq(tops, C6_IsNode)
    IN  /\ \A k \in 1..Len(tops) :
              /\ tops[k].i = (IF k = 1 THEN 0 ELSE tops[k - 1].next)
              /\ tops[k].i < tops[k].next
              /\ tops[k].node = ~C6_SkipText(Stripped(tops[k].i))
              /\ ~tops[k].node => tops[k].next = tops[k].i + 1
        /\ pc # "raising" => Len(C6_Nodes) = Len(starts)
        /\ \A m \in 1..Len(starts) :
              m <= Len(C6_Nodes) =>
                  /\ C6_Nodes[m].key = ParseLineHead(LineAt(starts[m].i)).key
                  /\ C6_Nodes[m].type_annotation = ParseLineHead(LineAt(starts[m].i)).ann
        /\ (pc = "done" /\ \A j \in LineIdx :
                              IsBlankText(Stripped(j)) \/ IsCommentText(Stripped(j))) =>
              document = <<>>
        /\ pc = "done" =>
              /\ C2_NodeStart = Len(lines)
              /\ document = stack[1].acc

\* a stray closer, a comment and a blank line between two nodes
C6_Witness ==
    /\ pc = "done"
    /\ Len(lines) = 4
    /\ Len(document) = 1
    /\ Len(tops) = 4
    /\ \E k \in 1..4 : Stripped(tops[k].i) = <<"}">> /\ ~tops[k].node
    /\ \E k \in 1..4 : IsCommentText(Stripped(tops[k].i)) /\ ~tops[k].node
    /\ \E k \in 1..4 : IsBlankText(Stripped(tops[k].i)) /\ ~tops[k].node

\* ---------------------------------------------------------------- C7

C7_IsCloser(j) == Stripped(j) = <<"]">>

\* line j lies inside a block nested in the list that began at line s
C7_Nested(s, j) ==
    \E k \in RetIdx :
        rets[k].kind = "block" /\ s < rets[k].start /\ rets[k].start < j
            /\ j < rets[k].next

\* the value of the block that began at line j
C7_BlockAt(j) ==
    LET k == CHOOSE k \in RetIdx : rets[k].kind = "block" /\ rets[k].start = j
    IN  rets[k].value

\* the element the claim gives to the list line j
C7_ElementOk(e, j) ==
    LET t == Stripped(j)
    IN  IF Len(t) >= 2 /\ t[1] = "[" /\ t[Len(t)] = "]"
        THEN /\ e.tag = "list"
             /\ \A m \in 1..Len(e.v) : e.v[m].tag = "str"
             /\ e = ParseInlineList(t)
        ELSE IF t = <<"{">>
        THEN /\ e.tag = "dict"
             /\ \E k \in RetIdx : rets[k].kind = "block" /\ rets[k].start = j
             /\ e = C7_BlockAt(j)
        ELSE e.tag = "str" /\ e.v = t

\* C7 as stated: the list ends at the first line after the opener whose
\* stripped form is "]" (consumed), or at end of input when there is none.
C7_ListEndsAtFirstCloserLine ==
    \A k \in RetIdx :
        rets[k].kind = "list" =>
            LET c == FirstLine(rets[k].start + 1, C7_IsCloser)
            IN  rets[k].next = (IF c < Len(lines) THEN c + 1 ELSE c)

\* C7 as amended: the list ends at the first "]" line that is not inside a
\* block nested in the list; it has one element per non-blank, non-comment
\* line before that closer that is not inside a nested block, in input order:
\* an inline list of stripped scalars for "[...]", the nested block for "{",
\* the stripped line otherwise; nothing is deduplicated.
C7_ListElementsInOrder ==
    \A k \in RetIdx :
        rets[k].kind = "list" =>
            LET r == rets[k]
                s == r.start
                Own(j) == ~C7_Nested(s, j)
                OwnCloser(j) == Own(j) /\ C7_IsCloser(j)
                c == FirstLine(s + 1, OwnCloser)
                Elem(j) == Own(j) /\ ~IsBlankText(Stripped(j))
                              /\ ~IsCommentText(Stripped(j))
                els == Indices(s + 1, c - 1, Elem)
            IN  /\ r.value.tag = "list"
                /\ r.eof = (c = Len(lines))
                /\ r.next = (IF c < Len(lines) THEN c + 1 ELSE c)
                /\ Len(r.value.v) = Len(els)
                /\ \A m \in 1..Len(els) :
                      m <= Len(r.value.v) => C7_ElementOk(r.value.v[m], els[m])

\* a list whose nested block holds a "]" line: that line does not end the list
C7_Witness ==
    \E k \in RetIdx :
        /\ rets[k].kind = "list"
        /\ Len(rets[k].value.v) = 1
        /\ rets[k].value.v[1].tag = "dict"
        /\ \E j \in LineIdx : C7_IsCloser(j) /\ C7_Nested(rets[k].start, j)
        /\ rets[k].next = 4

\* ---------------------------------------------------------------- C8

\* the annotation on the key line j
C8_Ann(j) == ParseLineHead(LineAt(j)).ann

C8_IsFenceLine(j) == IsFenceText(Stripped(j))

\* the raw lines lo..hi, in order
C8_Raw(lo, hi) == [k \in 1..(IF hi >= lo THEN hi - lo + 1 ELSE 0) |-> LineAt(lo + k - 1)]

\* the annotation asks for no dedent: absent, empty, or not all digits
C8_Verbatim(ann) ==
    ~ann.some \/ ann.s = <<>> \/ \E k \in 1..Len(ann.s) : ann.s[k] \notin DigitChars

C9_Decimal(ann) ==
    ann.some /\ ann.s # <<>> /\ \A k \in 1..Len(ann.s) : ann.s[k] \in DecimalChars

\* the integer a string of decimal digits denotes
C9_Value(s) ==
    LET d(c) == CHOOSE n \in 0..9 : DigitVal(c) = n
        RECURSIVE pow(_)
        pow(e) == IF e = 0 THEN 1 ELSE 10 * pow(e - 1)
        RECURSIVE sum(_)
        sum(k) == IF k > Len(s) THEN 0 ELSE d(s[k]) * pow(Len(s) - k) + sum(k + 1)
    IN  sum(1)

\* C9: a multiline value is dedented iff the annotation is present and all
\* decimal digits, read as N: each line of length >= N loses its first N
\* characters, shorter lines stay, number and order of lines are kept; with
\* an absent, empty or non-numeric annotation the text comes back unmodified.
C9_DedentIffDecimalAnnotation ==
    \A k \in RetIdx :
        rets[k].kind = "multiline" =>
            LET r == rets[k]
                ann == C8_Ann(r.start)
                n == C9_Value(ann.s)
                want == [m \in 1..Len(r.content) |->
                            IF Len(r.content[m]) >= n
                            THEN SubSeq(r.content[m], n + 1, Len(r.content[m]))
                            ELSE r.content[m]]
            IN  /\ r.ok
                /\ pc # "error"
                /\ r.value.v = (IF C9_Decimal(ann) THEN Join(want, NL)
                                ELSE Join(r.content, NL))

\* ---------------------------------------------------------------- C10

\* what is left to do: lines not yet passed by the running loop, and frames
C10_Measure ==
    CASE pc = "run" -> 2 * (Len(lines) - Top.i) + Len(stack)
      [] pc = "raising" -> Len(stack)
      [] OTHER -> 0

\* the guard of some action holds
C10_CanStep ==
    \/ pc = "run" /\ Top.kind \in {"doc", "block", "list", "multiline"}
    \/ pc = "raising" /\ Len(stack) >= 1

C10_State ==
    /\ \A d \in 1..Len(stack) : 0 <= stack[d].i /\ stack[d].i <= Len(lines)
    /\ \A d \in 2..Len(stack) : stack[d - 1].i <= stack[d].start
                                   /\ stack[d].start < stack[d].i
    /\ \A k \in RetIdx :
          rets[k].start < rets[k].next /\ rets[k].next <= Len(lines)
    /\ \A j \in LineIdx : consumed[j + 1] <= 1
    /\ pc = "run" => \A j \in LineIdx : consumed[j + 1] = (IF j < Top.i THEN 1 ELSE 0)
    /\ pc = "done" => \A j \in LineIdx : consumed[j + 1] = 1
    /\ pc = "done" => Len(stack) = 1 /\ stack[1].i = Len(lines)
    /\ ~Terminated => C10_CanStep

C10_Step ==
    /\ C10_Measure' < C10_Measure
    /\ (pc = "run" /\ pc' = "run") =>
          /\ Len(stack') = Len(stack) => Top'.i > Top.i
          /\ Len(stack') > Len(stack) =>
                /\ Top'.i = Top.i + 1
                /\ SubSeq(stack', 1, Len(stack)) = stack
          /\ Len(stack') < Len(stack) =>
                /\ Top'.i >= Top.i
                /\ Top'.i > stack[Len(stack')].i

\* C10: every iteration of the top-level, block, list and multiline loops
\* moves the line cursor forward, every line-pipeline call from index s
\* returns n with s < n <= number of lines, every line is consumed by exactly
\* one construct, and parse terminates with a Document or a ParseError (a
\* bounded measure decreases at every step and a step is always possible
\* until then).
C10_CursorAdvancesLinesConsumedOnce == [][C10_State /\ C10_State' /\ C10_Step]_vars

\* a block closed by its "}" line, then one more top-level node
C10_Witness ==
    /\ pc = "done"
    /\ Len(lines) = 4
    /\ Len(document) = 2
    /\ \E k \in RetIdx : rets[k].kind = "block" /\ ~rets[k].eof /\ rets[k].next = 3
    /\ \A j \in LineIdx : consumed[j + 1] = 1

====
